---- MODULE Spec2Model ----
(***************************************************************************)
(* Model of mir_states/common/perception_states.py: the smach states       *)
(* find_objects, transform_object_poses, do_visual_servoing and            *)
(* find_cavities, their subscriber callbacks, and the perception nodes     *)
(* that answer their triggers over ROS topics.                             *)
(*                                                                         *)
(* Time is counted in tenths of a second.  The clock advances only in      *)
(* rospy.sleep(0.1), by exactly one unit; every other statement takes no   *)
(* time.  The node is running (rospy.is_shutdown() is False).              *)
(* matching_error values are counted in hundredths.                        *)
(***************************************************************************)
EXTENDS Integers, Sequences, FiniteSets, TLC

\* ---------------------------------------------------------------- bounds
MaxRetries == 2      \* find_objects(retries=...) is drawn from 1..MaxRetries
MaxTriggers == 2     \* triggers one find_objects object publishes in one episode

\* ------------------------------------------------------ program constants
FO_TIMEOUT == 100    \* rospy.Duration.from_sec(10.0)
FC_TIMEOUT == 50     \* rospy.Duration.from_sec(5.0)
SLEEP == 1           \* rospy.sleep(0.1)

\* Python's None, as the value of a slot that holds an ObjectList.
None == [tag |-> 0, objects |-> "None"]

VARIABLES
    step,           \* the state object under execution in this episode
    \* ---- find_objects
    retries,        \* self.retries
    object_list,    \* self.object_list: None or [tag, objects]
    event_msg,      \* self.event_msg: [tag, data]
    found_objects,  \* userdata.found_objects
    pc,             \* position of execute
    i,              \* loop variable of `for i in range(self.retries)`
    elapsed,        \* rospy.Time.now() - start_time
    result,         \* outcome returned by the last execute call
    triggers,       \* "e_trigger" messages published so far (all calls)
    answered,       \* last trigger the detector has answered
    qList,          \* messages in flight on OBJECT_LIST_TOPIC
    qEvent,         \* messages in flight on EVENT_OUT_TOPIC
    \* ---- history of the current execute call
    wait,           \* how the wait loop of the current cycle ended
    nReset,         \* resets of the latched state
    nTrig,          \* triggers published
    ends,           \* per finished cycle: how the wait ended, what line 59 saw
    \* ---- find_cavities
    selected_objects,       \* userdata.selected_objects: object names
    found_cavities,         \* userdata.found_cavities
    local_found_cavities,   \* the local list of execute
    local_tags,             \* the trigger each entry of the local list answers
    cavity,                 \* self.cavity: NoCavity or a Cavity message
    k,                      \* position of `for obj in userdata.selected_objects`
    qCavity,                \* messages in flight on the cavity topic
    seen,                   \* every candidate handed to the merge so far
    found_before,           \* userdata.found_cavities when execute was entered
    \* ---- frames (find_cavities and transform_object_poses)
    frame_id,       \* self.frame_id: NoFrame (None) or the target frame
    tf_failed,      \* positions whose transform raised in the current call
    poses,          \* frame of obj.pose for obj in userdata.found_objects
    obj,            \* position of `for obj in userdata.found_objects`
    \* ---- do_visual_servoing
    vscount,        \* userdata.vscount
    response        \* what self.do_vs() did: raised, or returned an error_code

fo_latch == <<object_list, event_msg>>
fo_net == <<answered, qList, qEvent>>
fo_hist == <<nReset, nTrig, ends>>
fo_vars == <<retries, object_list, event_msg, found_objects, pc, i, elapsed,
             result, triggers, answered, qList, qEvent, wait, nReset,
             nTrig, ends>>

\* the variables only find_objects uses, and those only find_cavities uses
fo_own == <<retries, object_list, event_msg, found_objects, i, qList, qEvent,
            wait, ends>>
fc_own == <<selected_objects, found_cavities, local_found_cavities, local_tags,
            cavity, k, qCavity, seen>>

\* the variables of the frame transforms, of do_visual_servoing, and the
\* record of find_cavities' input
tf_own == <<frame_id, tf_failed, poses, obj>>
vs_own == <<vscount, response>>
fc_hist == <<found_before>>

vars == <<step, fo_vars, fc_own, fc_hist, tf_own, vs_own>>

\* The kinds of ObjectList payload: no objects, or some objects.
Payloads == {"empty", "objects"}

NoEvent == [tag |-> 0, data |-> ""]

\* Python's None, as the value of self.cavity.
NoCavity == [tag |-> 0, object_name |-> "", matching_error |-> 0, frame |-> ""]

\* Python's None, as the value of self.frame_id (the default of frame_id).
NoFrame == ""

\* The frame the perception nodes express their poses in, and the frame a
\* state object is constructed with.
CameraFrame == "camera"
TargetFrame == "base_link"

\* No call of the servoing service has been made yet.
NoResponse == [status |-> "none", error_code |-> 0]

\* ------------------------------------------------------------ find_objects

\* `self.event_msg == "e_done"`, the first operand of line 49
SawDone(ev) == ev.data = "e_done"

\* `self.object_list is not None`, the second operand of line 49
HasList(ol) == ol # None

\* the failure test taking any event for a failure
AnyEvent(ev) == ev.data # ""

\* `self.event_msg == "e_failed"`
WaitFailed(ev) == ev.data = "e_failed"

\* the deadline test written with >= instead of >
DeadlineReached(el, timeout) == el >= timeout

\* `(rospy.Time.now() - start_time) > timeout`
DeadlineExceeded(el, timeout) == el > timeout

\* `not self.object_list or len(self.object_list.objects) <= 0`
NoObjects(ol) == ol = None \/ ol.objects = "empty"

MaxObjects == 3    \* longest userdata.found_objects of transform_object_poses

\* userdata.found_objects as transform_object_poses receives it: the frame
\* of each object's pose
ObjectPoses == UNION {[1..n -> {CameraFrame}] : n \in 0..MaxObjects}

InitState ==
    /\ retries \in (IF step = "find_objects" THEN 1..MaxRetries ELSE {1})
    /\ object_list = None
    /\ event_msg = NoEvent
    /\ found_objects = None
    /\ pc = "idle"
    /\ i = 0
    /\ elapsed = 0
    /\ result = "none"
    /\ triggers = 0
    /\ answered = 0
    /\ qList = <<>>
    /\ qEvent = <<>>
    /\ wait = "pending"
    /\ nReset = 0
    /\ nTrig = 0
    /\ ends = <<>>
    /\ selected_objects = <<>>
    /\ found_cavities = <<>>
    /\ local_found_cavities = <<>>
    /\ local_tags = <<>>
    /\ cavity = NoCavity
    /\ k = 1
    /\ qCavity = <<>>
    /\ seen = <<>>
    /\ found_before = <<>>
    /\ tf_failed = {}
    /\ poses \in (IF step = "transform_object_poses" THEN ObjectPoses
                                                     ELSE {<<>>})
    /\ obj = 1
    /\ vscount = 0
    /\ response = NoResponse

\* The state objects are constructed with the default frame_id=None.
Init == frame_id = NoFrame /\ InitState

\* execute is entered: userdata.found_objects = None, then the first
\* iteration of the for loop
FO_L37 ==
    /\ step = "find_objects"
    /\ pc = "idle"
    /\ triggers + retries <= MaxTriggers
    /\ found_objects' = None
    /\ i' = 0
    /\ result' = "none"
    /\ nReset' = 0
    /\ nTrig' = 0
    /\ ends' = <<>>
    /\ pc' = "L39"
    /\ UNCHANGED <<step, vs_own, tf_own, fc_hist,
                   fc_own, retries, fo_latch, elapsed, triggers, fo_net, wait>>

\* self.object_list = None
FO_L39 ==
    /\ step = "find_objects"
    /\ pc = "L39"
    /\ object_list' = None
    /\ pc' = "L40"
    /\ UNCHANGED <<step, vs_own, tf_own, fc_hist,
                   fc_own, retries, event_msg, found_objects, i, elapsed, result,
                   triggers, fo_net, wait, fo_hist>>

\* self.event_msg = ""
FO_L40 ==
    /\ step = "find_objects"
    /\ pc = "L40"
    /\ event_msg' = NoEvent
    /\ nReset' = nReset + 1
    /\ pc' = "L43"
    /\ UNCHANGED <<step, vs_own, tf_own, fc_hist,
                   fc_own, retries, object_list, found_objects, i, elapsed, result,
                   triggers, fo_net, wait, nTrig, ends>>

\* self.event_in_pub.publish("e_trigger"); start_time = rospy.Time.now()
FO_L43 ==
    /\ step = "find_objects"
    /\ pc = "L43"
    /\ triggers' = triggers + 1
    /\ nTrig' = nTrig + 1
    /\ elapsed' = 0
    /\ wait' = "pending"
    /\ pc' = "L49"
    /\ UNCHANGED <<step, vs_own, tf_own, fc_hist,
                   fc_own, retries, fo_latch, found_objects, i, result, fo_net, nReset, ends>>

\* The wait loop is left: control reaches line 59.
FO_Break(how) ==
    /\ wait' = how
    /\ pc' = "L59"

\* line 49, first operand: `if self.event_msg == "e_done" and ...`
FO_L49 ==
    /\ step = "find_objects"
    /\ pc = "L49"
    /\ pc' = IF SawDone(event_msg) THEN "L49b" ELSE "L51"
    /\ UNCHANGED <<step, vs_own, tf_own, fc_hist,
                   fc_own, retries, fo_latch, found_objects, i, elapsed, result,
                   triggers, fo_net, wait, fo_hist>>

\* line 49, second operand: `... and self.object_list is not None: break`
FO_L49b ==
    /\ step = "find_objects"
    /\ pc = "L49b"
    /\ IF HasList(object_list)
         THEN FO_Break("success")
         ELSE pc' = "L51" /\ UNCHANGED wait
    /\ UNCHANGED <<step, vs_own, tf_own, fc_hist,
                   fc_own, retries, fo_latch, found_objects, i, elapsed, result,
                   triggers, fo_net, fo_hist>>

\* `elif self.event_msg == "e_failed": break`
FO_L51 ==
    /\ step = "find_objects"
    /\ pc = "L51"
    /\ IF WaitFailed(event_msg)
         THEN FO_Break("failed")
         ELSE pc' = "L54" /\ UNCHANGED wait
    /\ UNCHANGED <<step, vs_own, tf_own, fc_hist,
                   fc_own, retries, fo_latch, found_objects, i, elapsed, result,
                   triggers, fo_net, fo_hist>>

\* `elif (rospy.Time.now() - start_time) > timeout: break`
FO_L54 ==
    /\ step = "find_objects"
    /\ pc = "L54"
    /\ IF DeadlineExceeded(elapsed, FO_TIMEOUT)
         THEN FO_Break("timed_out")
         ELSE pc' = "L57" /\ UNCHANGED wait
    /\ UNCHANGED <<step, vs_own, tf_own, fc_hist,
                   fc_own, retries, fo_latch, found_objects, i, elapsed, result,
                   triggers, fo_net, fo_hist>>

\* rospy.sleep(0.1)
FO_L57 ==
    /\ step = "find_objects"
    /\ pc = "L57"
    /\ elapsed' = elapsed + SLEEP
    /\ pc' = "L49"
    /\ UNCHANGED <<step, vs_own, tf_own, fc_hist,
                   fc_own, retries, fo_latch, found_objects, i, result, triggers, fo_net, wait, fo_hist>>

\* lines 59-64 with the reset left out of the retry: the next attempt starts
\* at the publish statement
FO_L59_NoReset ==
    /\ step = "find_objects"
    /\ pc = "L59"
    /\ ends' = Append(ends, [wait |-> wait, list |-> object_list.objects])
    /\ IF NoObjects(object_list) /\ i + 1 < retries
         THEN i' = i + 1 /\ pc' = "L43"
         ELSE i' = i /\ pc' = "L66"
    /\ UNCHANGED <<step, vs_own, tf_own, fc_hist,
                   fc_own, retries, fo_latch, found_objects, elapsed,
                   result, triggers, fo_net, wait, nReset, nTrig>>

\* lines 59-64: `if not self.object_list or len(...) <= 0: ... else: break`,
\* then the next iteration of the for loop or its end
FO_L59 ==
    /\ step = "find_objects"
    /\ pc = "L59"
    /\ ends' = Append(ends, [wait |-> wait, list |-> object_list.objects])
    /\ IF NoObjects(object_list) /\ i + 1 < retries
         THEN i' = i + 1 /\ pc' = "L39"
         ELSE i' = i /\ pc' = "L66"
    /\ UNCHANGED <<step, vs_own, tf_own, fc_hist,
                   fc_own, retries, fo_latch, found_objects, elapsed, result,
                   triggers, fo_net, wait, nReset, nTrig>>

\* lines 66-68: `if not self.object_list or ...: return 'no_objects_found'`
FO_L66 ==
    /\ step = "find_objects"
    /\ pc = "L66"
    /\ IF NoObjects(object_list)
         THEN result' = "no_objects_found" /\ pc' = "idle"
         ELSE result' = result /\ pc' = "L70"
    /\ UNCHANGED <<step, vs_own, tf_own, fc_hist,
                   fc_own, retries, fo_latch, found_objects, i, elapsed, triggers, fo_net, wait, fo_hist>>

\* lines 70-71: userdata.found_objects = self.object_list.objects
FO_L70 ==
    /\ step = "find_objects"
    /\ pc = "L70"
    /\ found_objects' = object_list
    /\ result' = "objects_found"
    /\ pc' = "idle"
    /\ UNCHANGED <<step, vs_own, tf_own, fc_hist,
                   fc_own, retries, fo_latch, i, elapsed, triggers, fo_net,
                   wait, fo_hist>>

\* def object_list_cb(self, event): self.object_list = event
object_list_cb ==
    /\ step = "find_objects"
    /\ qList # <<>>
    /\ object_list' = Head(qList)
    /\ qList' = Tail(qList)
    /\ UNCHANGED <<step, vs_own, tf_own, fc_hist,
                   fc_own, retries, event_msg, found_objects, pc, i, elapsed,
                   result, triggers, answered, qEvent, wait, fo_hist>>

\* def event_out_cb(self, event): self.event_msg = event.data
event_out_cb ==
    /\ step = "find_objects"
    /\ qEvent # <<>>
    /\ event_msg' = Head(qEvent)
    /\ qEvent' = Tail(qEvent)
    /\ UNCHANGED <<step, vs_own, tf_own, fc_hist,
                   fc_own, retries, object_list, found_objects, pc, i, elapsed,
                   result, triggers, answered, qList, wait, fo_hist>>

\* The object detector answers trigger k, zero or one time per trigger and in
\* the order of the triggers: an object list and "e_done", or "e_failed".
DetectorDone ==
    /\ step = "find_objects"
    /\ \E t \in (answered + 1)..triggers, p \in Payloads :
         /\ answered' = t
         /\ qList' = Append(qList, [tag |-> t, objects |-> p])
         /\ qEvent' = Append(qEvent, [tag |-> t, data |-> "e_done"])
    /\ UNCHANGED <<step, vs_own, tf_own, fc_hist,
                   fc_own, retries, fo_latch, found_objects, pc, i, elapsed,
                   result, triggers, wait, fo_hist>>

DetectorFailed ==
    /\ step = "find_objects"
    /\ \E t \in (answered + 1)..triggers :
         /\ answered' = t
         /\ qEvent' = Append(qEvent, [tag |-> t, data |-> "e_failed"])
    /\ UNCHANGED <<step, vs_own, tf_own, fc_hist,
                   fc_own, retries, fo_latch, found_objects, pc, i, elapsed,
                   result, triggers, qList, wait, fo_hist>>

\* ----------------------------------------------------------- find_cavities
Names == {"A", "B"}
MaxSelected == 2         \* longest userdata.selected_objects
MaxCavityTriggers == 2   \* triggers one find_cavities object publishes in one episode
\* matching errors the cavity message builder reports, in hundredths
Errs == {3, 8, 10, 20}

matching_threshold == 10     \* self.matching_threshold = 0.1

Candidate(n, e) == [object_name |-> n, matching_error |-> e]

\* The same fields of a Cavity message together with the frame of its pose.
Posed(n, e, f) == [object_name |-> n, matching_error |-> e, frame |-> f]

SelectedLists == UNION {[1..n -> Names] : n \in 0..MaxSelected}

\* `if self.cavity:`
HasCavity(cav) == cav # NoCavity

\* the comparison of line 183 reversed
Worse(new, old) == new > old

\* the comparison of line 183 left out: the last candidate of a name wins
Always(new, old) == TRUE

\* `cavity...matching_error < c...matching_error` (line 183)
Better(new, old) == new < old

\* the threshold test written with <= instead of <
AcceptedAtThreshold(e) == e <= matching_threshold

\* `cavity...matching_error < self.matching_threshold` (line 189)
Accepted(e) == e < matching_threshold

\* lines 180-190 without the `exists` flag: a cavity below the threshold is
\* appended whether or not an entry has its name
MergeOneNoExists(fc, cand) ==
    LET replaced == [idx \in 1..Len(fc) |->
                       IF /\ cand.object_name = fc[idx].object_name
                          /\ cand.matching_error < fc[idx].matching_error
                         THEN cand ELSE fc[idx]]
    IN  IF cand.matching_error < matching_threshold
          THEN Append(replaced, cand)
          ELSE replaced

\* lines 180-190 with the better cavity appended instead of put in the place
\* of the entry it betters
MergeOneAppendBetter(fc, cand) ==
    LET exists == \E idx \in 1..Len(fc) : cand.object_name = fc[idx].object_name
        better == \E idx \in 1..Len(fc) :
                      /\ cand.object_name = fc[idx].object_name
                      /\ cand.matching_error < fc[idx].matching_error
    IN  IF exists
          THEN IF better THEN Append(fc, cand) ELSE fc
          ELSE IF cand.matching_error < matching_threshold
                 THEN Append(fc, cand)
                 ELSE fc

\* lines 180-190, the body of `for cavity in local_found_cavities` for one
\* cavity: replace every entry of the same name it betters, and append it
\* when no entry has its name and it is below the threshold
MergeOne(fc, cand) ==
    LET exists == \E idx \in 1..Len(fc) : cand.object_name = fc[idx].object_name
        replaced == [idx \in 1..Len(fc) |->
                       IF /\ cand.object_name = fc[idx].object_name
                          /\ Better(cand.matching_error, fc[idx].matching_error)
                         THEN cand ELSE fc[idx]]
    IN  IF exists THEN replaced
        ELSE IF Accepted(cand.matching_error)
               THEN Append(replaced, cand)
               ELSE replaced

\* lines 179-190: the cavities of the local list are merged in list order
RECURSIVE Merge(_, _)
Merge(fc, batch) ==
    IF batch = <<>> THEN fc
    ELSE Merge(MergeOne(fc, Head(batch)), Tail(batch))

\* lines 192-195 with >= for ==
ClassifyAtLeast(fc, sel) ==
    IF Len(fc) >= Len(sel) THEN "succeeded" ELSE "not_all_cavities_found"

\* lines 192-195
Classify(fc, sel) ==
    IF Len(fc) = Len(sel) THEN "succeeded" ELSE "not_all_cavities_found"

\* execute is entered: local_found_cavities = [], then the first iteration of
\* the for loop, or the merge when no object is selected
FC_L150 ==
    /\ step = "find_cavities"
    /\ pc = "idle"
    /\ \E sel \in SelectedLists :
         /\ triggers + Len(sel) <= MaxCavityTriggers
         /\ selected_objects' = sel
         /\ pc' = IF Len(sel) > 0 THEN "C152" ELSE "C179"
    /\ local_found_cavities' = <<>>
    /\ local_tags' = <<>>
    /\ k' = 1
    /\ result' = "none"
    /\ nReset' = 0
    /\ nTrig' = 0
    /\ found_before' = found_cavities
    /\ tf_failed' = {}
    /\ UNCHANGED <<step, vs_own, frame_id, poses, obj,
                   fo_own, found_cavities, cavity, qCavity, seen, elapsed,
                   triggers, answered>>

\* self.cavity = None
FC_L152 ==
    /\ step = "find_cavities"
    /\ pc = "C152"
    /\ cavity' = NoCavity
    /\ nReset' = nReset + 1
    /\ pc' = "C153"
    /\ UNCHANGED <<step, vs_own, tf_own, fc_hist,
                   fo_own, selected_objects, found_cavities,
                   local_found_cavities, local_tags, k, qCavity, seen, elapsed,
                   result, triggers, answered, nTrig>>

\* lines 153-157: publish obj.name and "e_trigger"; start_time = now
FC_L153 ==
    /\ step = "find_cavities"
    /\ pc = "C153"
    /\ triggers' = triggers + 1
    /\ nTrig' = nTrig + 1
    /\ elapsed' = 0
    /\ pc' = "C159"
    /\ UNCHANGED <<step, vs_own, tf_own, fc_hist,
                   fo_own, fc_own, result, answered, nReset>>

\* `if self.cavity:`
FC_L159 ==
    /\ step = "find_cavities"
    /\ pc = "C159"
    /\ pc' = IF HasCavity(cavity) THEN "C161" ELSE "C165"
    /\ UNCHANGED <<step, vs_own, tf_own, fc_hist,
                   fo_own, fc_own, elapsed, result, triggers, answered,
                   nReset, nTrig>>

\* self.cavity.object_name = obj.name
FC_L161 ==
    /\ step = "find_cavities"
    /\ pc = "C161"
    /\ cavity' = [cavity EXCEPT !.object_name = selected_objects[k]]
    /\ pc' = "C162"
    /\ UNCHANGED <<step, vs_own, tf_own, fc_hist,
                   fo_own, selected_objects, found_cavities,
                   local_found_cavities, local_tags, k, qCavity, seen, elapsed,
                   result, triggers, answered, nReset, nTrig>>

\* local_found_cavities.append(self.cavity); break; then the next object of
\* the for loop or its end
FC_L162 ==
    /\ step = "find_cavities"
    /\ pc = "C162"
    /\ local_found_cavities' =
         Append(local_found_cavities,
                Posed(cavity.object_name, cavity.matching_error, cavity.frame))
    /\ local_tags' = Append(local_tags, cavity.tag)
    /\ IF k < Len(selected_objects)
         THEN k' = k + 1 /\ pc' = "C152"
         ELSE k' = k /\ pc' = "C179"
    /\ UNCHANGED <<step, vs_own, tf_own, fc_hist,
                   fo_own, selected_objects, found_cavities, cavity,
                   qCavity, seen, elapsed, result, triggers, answered, nReset,
                   nTrig>>

\* the timeout branch merging what was received before it returns
FC_L165_Merge ==
    /\ step = "find_cavities"
    /\ pc = "C165"
    /\ IF DeadlineExceeded(elapsed, FC_TIMEOUT)
         THEN /\ result' = "timeout"
              /\ pc' = "idle"
              /\ found_cavities' = Merge(found_cavities, local_found_cavities)
         ELSE /\ result' = result
              /\ pc' = "C169"
              /\ found_cavities' = found_cavities
    /\ UNCHANGED <<step, vs_own, tf_own, fc_hist, fo_own, selected_objects,
                   local_found_cavities, local_tags, cavity, k, qCavity, seen,
                   elapsed, triggers, answered, nReset, nTrig>>

\* `if (rospy.Time.now() - start_time) > timeout: return 'timeout'`
FC_L165 ==
    /\ step = "find_cavities"
    /\ pc = "C165"
    /\ IF DeadlineExceeded(elapsed, FC_TIMEOUT)
         THEN result' = "timeout" /\ pc' = "idle"
         ELSE result' = result /\ pc' = "C169"
    /\ UNCHANGED <<step, vs_own, tf_own, fc_hist,
                   fo_own, fc_own, elapsed, triggers, answered, nReset,
                   nTrig>>

\* rospy.sleep(0.1)
FC_L169 ==
    /\ step = "find_cavities"
    /\ pc = "C169"
    /\ elapsed' = elapsed + SLEEP
    /\ pc' = "C159"
    /\ UNCHANGED <<step, vs_own, tf_own, fc_hist,
                   fo_own, fc_own, result, triggers, answered, nReset,
                   nTrig>>

\* lines 171-176: transformPose gives cavity.pose the frame `fid`, except for
\* the positions in `failing`, where it raises: the exception is logged and
\* the cavity keeps the pose it has
TransformPoses(lfc, fid, failing) ==
    [idx \in 1..Len(lfc) |->
        IF idx \in failing THEN lfc[idx] ELSE [lfc[idx] EXCEPT !.frame = fid]]

\* lines 171-195: with a frame_id the poses of the local list are transformed
\* (any of the transforms may raise), then the local list is merged into
\* userdata.found_cavities and the outcome is returned
FC_L179 ==
    /\ step = "find_cavities"
    /\ pc = "C179"
    /\ \E failing \in (IF frame_id # NoFrame
                        THEN SUBSET (1..Len(local_found_cavities))
                        ELSE {{}}) :
         /\ tf_failed' = failing
         /\ local_found_cavities' =
              IF frame_id # NoFrame
                THEN TransformPoses(local_found_cavities, frame_id, failing)
                ELSE local_found_cavities
    /\ found_cavities' = Merge(found_cavities, local_found_cavities')
    /\ seen' = seen \o local_found_cavities'
    /\ result' = Classify(found_cavities', selected_objects)
    /\ pc' = "idle"
    /\ UNCHANGED <<step, vs_own, frame_id, poses, obj, fc_hist,
                   fo_own, selected_objects, local_tags, cavity, k, qCavity,
                   elapsed, triggers, answered, nReset, nTrig>>

\* def cavity_cb(self, cavity): self.cavity = cavity
cavity_cb ==
    /\ step = "find_cavities"
    /\ qCavity # <<>>
    /\ cavity' = Head(qCavity)
    /\ qCavity' = Tail(qCavity)
    /\ UNCHANGED <<step, vs_own, tf_own, fc_hist,
                   fo_own, selected_objects, found_cavities,
                   local_found_cavities, local_tags, k, seen, pc, elapsed,
                   result, triggers, answered, nReset, nTrig>>

\* The cavity message builder answers trigger t, zero or one time per trigger
\* and in the order of the triggers, with a Cavity whose object_name it
\* leaves unset.
CavityBuilder ==
    /\ step = "find_cavities"
    /\ \E t \in (answered + 1)..triggers, e \in Errs :
         /\ answered' = t
         /\ qCavity' = Append(qCavity, [tag |-> t, object_name |-> "",
                                        matching_error |-> e,
                                        frame |-> CameraFrame])
    /\ UNCHANGED <<step, vs_own, tf_own, fc_hist,
                   fo_own, selected_objects, found_cavities,
                   local_found_cavities, local_tags, cavity, k, seen, pc,
                   elapsed, result, triggers, nReset, nTrig>>

\* ------------------------------------------------- the merge, on its own
MaxBatch == 2    \* longest batch handed to the merge
MaxSeen == 3     \* candidates handed to the merge in one episode

Candidates == {Candidate(n, e) : n \in Names, e \in Errs}

Batches == UNION {[1..n -> Candidates] : n \in 1..MaxBatch}

\* A batch of candidates reaches line 179 as local_found_cavities.
M_Batch ==
    /\ step = "merge"
    /\ pc = "idle"
    /\ \E batch \in Batches :
         /\ Len(seen) + Len(batch) <= MaxSeen
         /\ local_found_cavities' = batch
    /\ pc' = "M179"
    /\ UNCHANGED <<step, vs_own, tf_own, fc_hist,
                   fo_own, selected_objects, found_cavities, local_tags,
                   cavity, k, qCavity, seen, elapsed, result, triggers,
                   answered, nReset, nTrig>>

\* One iteration of `for cavity in local_found_cavities` (lines 179-190).
M_L179 ==
    /\ step = "merge"
    /\ pc = "M179"
    /\ found_cavities' = MergeOne(found_cavities, Head(local_found_cavities))
    /\ seen' = Append(seen, Head(local_found_cavities))
    /\ local_found_cavities' = Tail(local_found_cavities)
    /\ pc' = IF Len(local_found_cavities) > 1 THEN "M179" ELSE "idle"
    /\ UNCHANGED <<step, vs_own, tf_own, fc_hist,
                   fo_own, selected_objects, local_tags, cavity, k,
                   qCavity, elapsed, result, triggers, answered, nReset, nTrig>>

\* ------------------------------------------------ transform_object_poses
\* line 86 and the head of the for loop: without a frame_id the call returns
\* 'no_frame_specified'; with an empty list it returns 'succeeded'
TP_L86 ==
    /\ step = "transform_object_poses"
    /\ pc = "idle"
    /\ tf_failed' = {}
    /\ obj' = 1
    /\ IF frame_id = NoFrame
         THEN result' = "no_frame_specified" /\ pc' = "idle"
         ELSE IF poses = <<>>
                THEN result' = "succeeded" /\ pc' = "idle"
                ELSE result' = "none" /\ pc' = "T88"
    /\ UNCHANGED <<step, vs_own, frame_id, poses, fc_hist, fo_own, fc_own,
                   elapsed, triggers, answered, nReset, nTrig>>

\* lines 88-92 without an exception: obj.pose is replaced by the transformed
\* pose; then the next object, or `return 'succeeded'` (line 98)
TP_L88 ==
    /\ step = "transform_object_poses"
    /\ pc = "T88"
    /\ poses' = [poses EXCEPT ![obj] = frame_id]
    /\ IF obj < Len(poses)
         THEN obj' = obj + 1 /\ pc' = "T88" /\ result' = result
         ELSE obj' = obj /\ pc' = "idle" /\ result' = "succeeded"
    /\ UNCHANGED <<step, vs_own, frame_id, tf_failed, fc_hist, fo_own,
                   fc_own, elapsed, triggers, answered, nReset, nTrig>>

\* lines 93-95: the transform raises; the error is logged and the call
\* returns 'tf_error'
TP_L93 ==
    /\ step = "transform_object_poses"
    /\ pc = "T88"
    /\ tf_failed' = {obj}
    /\ result' = "tf_error"
    /\ pc' = "idle"
    /\ UNCHANGED <<step, vs_own, frame_id, poses, obj, fc_hist, fo_own,
                   fc_own, elapsed, triggers, answered, nReset, nTrig>>

\* ---------------------------------------------------- do_visual_servoing
MaxVsCount == 8    \* userdata.vscount is drawn from 0..MaxVsCount

\* error codes the service may answer with: the four the state names, and
\* two it does not
Codes == {0, -1, -2, -3, 1, -4}

Responses ==
    {[status |-> "raised", error_code |-> 0]}
        \cup {[status |-> "returned", error_code |-> c] : c \in Codes}

\* userdata.vscount written whatever the error code is
VSCountAlways(code, count) == 0

\* line 120: userdata.vscount = 0, in the branch of error_code 0 only
VSCount(code, count) == IF code = 0 THEN 0 ELSE count

\* lines 119-127: the if/elif chain; a code none of the branches names falls
\* off the end of execute, which then returns Python's None
VSOutcome(code) ==
    CASE code = 0 -> "succeeded"
      [] code = -1 -> "failed"
      [] code = -2 -> "timeout"
      [] code = -3 -> "lost_object"
      [] OTHER -> "None"

\* lines 112-114: execute is entered with the container's userdata.vscount
\* and calls the service, which returns a response or raises
VS_L114 ==
    /\ step = "do_visual_servoing"
    /\ pc = "idle"
    /\ \E n \in 0..MaxVsCount : vscount' = n
    /\ \E r \in Responses :
         /\ response' = r
         /\ pc' = IF r.status = "raised" THEN "V116" ELSE "V119"
    /\ result' = "none"
    /\ UNCHANGED <<step, tf_own, fc_hist, fo_own, fc_own, elapsed, triggers,
                   answered, nReset, nTrig>>

\* lines 115-118: except rospy.ServiceException
VS_L116 ==
    /\ step = "do_visual_servoing"
    /\ pc = "V116"
    /\ vscount' = 0
    /\ result' = "failed"
    /\ pc' = "idle"
    /\ UNCHANGED <<step, response, tf_own, fc_hist, fo_own, fc_own, elapsed,
                   triggers, answered, nReset, nTrig>>

\* lines 119-127
VS_L119 ==
    /\ step = "do_visual_servoing"
    /\ pc = "V119"
    /\ vscount' = VSCount(response.error_code, vscount)
    /\ result' = VSOutcome(response.error_code)
    /\ pc' = "idle"
    /\ UNCHANGED <<step, response, tf_own, fc_hist, fo_own, fc_own, elapsed,
                   triggers, answered, nReset, nTrig>>

\* ------------------------------------------------------------ specifications
FO_Next ==
    \/ FO_L37 \/ FO_L39 \/ FO_L40 \/ FO_L43
    \/ FO_L49 \/ FO_L49b \/ FO_L51 \/ FO_L54 \/ FO_L57
    \/ FO_L59 \/ FO_L66 \/ FO_L70
    \/ object_list_cb \/ event_out_cb
    \/ DetectorDone \/ DetectorFailed

FC_Next ==
    \/ FC_L150 \/ FC_L152 \/ FC_L153 \/ FC_L159 \/ FC_L161 \/ FC_L162
    \/ FC_L165 \/ FC_L169 \/ FC_L179
    \/ cavity_cb \/ CavityBuilder

InitObjects == step = "find_objects" /\ Init

SpecObjects == InitObjects /\ [][FO_Next]_vars

InitCavities == step = "find_cavities" /\ Init

SpecCavities == InitCavities /\ [][FC_Next]_vars

M_Next == M_Batch \/ M_L179

InitMerge == step = "merge" /\ Init

SpecMerge == InitMerge /\ [][M_Next]_vars

TP_Next == TP_L86 \/ TP_L88 \/ TP_L93

VS_Next == VS_L114 \/ VS_L116 \/ VS_L119

InitServo == step = "do_visual_servoing" /\ Init

SpecServo == InitServo /\ [][VS_Next]_vars

\* The four state objects of the module, find_cavities and
\* transform_object_poses constructed with or without a frame_id.
Steps == {"find_objects", "transform_object_poses", "do_visual_servoing",
          "find_cavities"}

InitSteps ==
    /\ step \in Steps
    /\ frame_id \in (IF step \in {"transform_object_poses", "find_cavities"}
                       THEN {NoFrame, TargetFrame}
                       ELSE {NoFrame})
    /\ InitState

StepsNext == FO_Next \/ TP_Next \/ VS_Next \/ FC_Next

SpecSteps == InitSteps /\ [][StepsNext]_vars

Next == FO_Next \/ FC_Next

InitBoth == step \in {"find_objects", "find_cavities"} /\ Init

Spec == InitBoth /\ [][Next]_vars

\* The thread that runs execute keeps running: a statement of execute that can
\* be taken is taken.  (Nothing obliges the container to call execute, the
\* detectors to answer, or a message to be delivered.)
Execute ==
    \/ FO_L39 \/ FO_L40 \/ FO_L43
    \/ FO_L49 \/ FO_L49b \/ FO_L51 \/ FO_L54 \/ FO_L57
    \/ FO_L59 \/ FO_L66 \/ FO_L70
    \/ FC_L152 \/ FC_L153 \/ FC_L159 \/ FC_L161 \/ FC_L162
    \/ FC_L165 \/ FC_L169 \/ FC_L179

FairSpec == Spec /\ WF_vars(Execute)

\* -------------------------------------------------------------------- claims
\* an execute call of find_objects has returned
FO_Returned == step = "find_objects" /\ pc = "idle" /\ result # "none"

\* the cycles of the returned call that ended with a non-empty object list
FO_NonEmptyCycles == {j \in 1..Len(ends) : ends[j].list = "objects"}

\* the trigger-await cycles a call performs: up to the first cycle that ends
\* with a non-empty object list, and never more than `retries`
FO_CycleCount ==
    FO_Returned =>
        /\ nTrig = Len(ends)
        /\ nTrig <= retries
        /\ IF FO_NonEmptyCycles = {}
             THEN nTrig = retries
             ELSE \A j \in FO_NonEmptyCycles : nTrig = j

\* every cycle of the returned call ended with e_failed and no object list
FO_AllFailed ==
    \A j \in 1..Len(ends) : ends[j].wait = "failed" /\ ends[j].list = "None"

\* C1: a call performs as many trigger-await cycles as the index of the first
\* cycle that ends with a non-empty object list, or `retries` if none does; and
\* when every attempt ends with e_failed and no object list it performs
\* `retries` cycles and returns 'no_objects_found'.
C1_RetryBound ==
    /\ FO_CycleCount
    /\ (FO_Returned /\ FO_AllFailed) =>
           (nTrig = retries /\ result = "no_objects_found")

\* C2: a result a cycle accepts was written in answer to that cycle's own
\* trigger: the object list a find_objects call returns answers the last
\* trigger of the call, and the j-th cavity a find_cavities call collects
\* answers the j-th trigger of the call.
C2_FreshResults ==
    /\ (FO_Returned /\ result = "objects_found") => found_objects.tag = triggers
    /\ step = "find_cavities" =>
           \A j \in 1..Len(local_tags) : local_tags[j] = triggers - nTrig + j

\* the positions of execute inside one cycle, after the trigger
FO_WaitPcs == {"L49", "L49b", "L51", "L54", "L57"}
FC_WaitPcs == {"C159", "C161", "C162", "C165", "C169"}

\* resets and triggers of the current call, by position: cycle c (c = i + 1,
\* respectively k) has made c resets and c triggers once it waits
C3_Counts ==
    /\ nTrig <= nReset /\ nReset <= nTrig + 1
    /\ (step = "find_objects" /\ pc \in {"L39", "L40"}) =>
           (nReset = i /\ nTrig = i)
    /\ (step = "find_objects" /\ pc = "L43") => (nReset = i + 1 /\ nTrig = i)
    /\ (step = "find_objects" /\ pc \in FO_WaitPcs \cup {"L59"}) =>
           (nReset = i + 1 /\ nTrig = i + 1)
    /\ (step = "find_cavities" /\ pc = "C152") =>
           (nReset = k - 1 /\ nTrig = k - 1)
    /\ (step = "find_cavities" /\ pc = "C153") => (nReset = k /\ nTrig = k - 1)
    /\ (step = "find_cavities" /\ pc \in FC_WaitPcs) =>
           (nReset = k /\ nTrig = k)

\* a trigger is published only by the publishing statement, which is reached
\* only from the statements that clear the latched state
C3_Order ==
    /\ triggers' # triggers =>
           (pc \in {"L43", "C153"} /\ triggers' = triggers + 1)
    /\ (pc' = "L43" /\ pc # "L43") => (pc = "L40" /\ event_msg' = NoEvent)
    /\ (pc' = "L40" /\ pc # "L40") => (pc = "L39" /\ object_list' = None)
    /\ (pc' = "C153" /\ pc # "C153") => (pc = "C152" /\ cavity' = NoCavity)

\* C3: in every cycle of find_objects and of find_cavities the latched state
\* is cleared before the trigger is published, exactly one trigger is
\* published in the cycle, and no trigger is published without a preceding
\* reset in the same cycle.
C3_ResetThenTrigger == []C3_Counts /\ [][C3_Order]_vars

C4_Exit ==
    /\ (pc' = "L49b" /\ pc # "L49b") =>
           (pc = "L49" /\ event_msg.data = "e_done")
    /\ (pc' = "L51" /\ pc # "L51") =>
           \/ pc = "L49" /\ event_msg.data # "e_done"
           \/ pc = "L49b" /\ object_list.objects = "None"
    /\ (pc' = "L54" /\ pc # "L54") =>
           (pc = "L51" /\ event_msg.data # "e_failed")
    /\ (pc \in FO_WaitPcs /\ pc' = "L59") =>
           \/ pc = "L49b" /\ object_list.objects # "None" /\ wait' = "success"
           \/ pc = "L51" /\ event_msg.data = "e_failed" /\ wait' = "failed"
           \/ pc = "L54" /\ elapsed > FO_TIMEOUT /\ wait' = "timed_out"
    /\ (pc \in FO_WaitPcs /\ pc' \notin FO_WaitPcs) => pc' = "L59"

\* C4: the wait loop of a find_objects cycle ends as success only at a poll
\* that saw 'e_done' and then a latched object list, as failed only at a poll
\* that saw 'e_failed', as timed-out only at a poll that saw neither and found
\* the deadline exceeded; it never ends otherwise.
C4_WaitOutcome == [][C4_Exit]_vars

\* a find_objects wait that has just ended as timed-out
C4_Witness == step = "find_objects" /\ pc = "L59" /\ wait = "timed_out"

\* a second cycle of one find_objects call has published its trigger
C3_Witness == step = "find_objects" /\ pc = "L49" /\ i = 1 /\ nTrig = 2

\* a wait ends as timed-out only after the deadline, and at most one sleep
\* after it; no wait lasts longer
C5_Deadline ==
    /\ (step = "find_objects" /\ pc = "L59" /\ wait = "timed_out") =>
           (elapsed > FO_TIMEOUT /\ elapsed <= FO_TIMEOUT + SLEEP)
    /\ (step = "find_objects" /\ pc \in FO_WaitPcs) =>
           elapsed <= FO_TIMEOUT + SLEEP
    /\ (step = "find_cavities" /\ pc = "idle" /\ result = "timeout") =>
           (elapsed > FC_TIMEOUT /\ elapsed <= FC_TIMEOUT + SLEEP)
    /\ (step = "find_cavities" /\ pc \in FC_WaitPcs) =>
           elapsed <= FC_TIMEOUT + SLEEP

\* a wait in which nothing has arrived: no done event or failure
\* (find_objects), no cavity (find_cavities)
C5_NothingArrived ==
    \/ step = "find_objects" /\ pc \in FO_WaitPcs /\ event_msg = NoEvent
    \/ step = "find_cavities" /\ pc \in {"C159", "C165", "C169"}
                              /\ cavity = NoCavity

\* the wait has ended, as timed-out if nothing had arrived
C5_WaitOver ==
    \/ step = "find_objects" /\ pc = "L59"
         /\ (event_msg = NoEvent => wait = "timed_out")
    \/ step = "find_cavities" /\ pc \in {"C161", "idle"}
         /\ (cavity = NoCavity => result = "timeout")

\* C5: a cycle in which neither the done condition nor a failure arrives ends
\* as timed-out, after the elapsed time exceeds max_duration (10 s in
\* find_objects, 5 s in find_cavities) and no later than one poll interval
\* after that; no wait continues indefinitely and every execute call returns.
C5_BoundedWait ==
    /\ []C5_Deadline
    /\ (C5_NothingArrived ~> C5_WaitOver)
    /\ (pc # "idle" ~> pc = "idle")

\* a find_cavities call has returned 'timeout', one sleep after the deadline
C5_Witness ==
    /\ step = "find_cavities" /\ pc = "idle" /\ result = "timeout"
    /\ elapsed = FC_TIMEOUT + SLEEP

\* the returned call's last cycle did not end as success
FO_LastNotSuccess == Len(ends) > 0 /\ ends[Len(ends)].wait # "success"

\* C6: a find_objects cycle whose wait ended as timed-out or failed yields no
\* result: it does not stop the retries and does not lead to 'objects_found';
\* the call goes on to the next attempt or, after the last one, returns
\* 'no_objects_found'.
C6_NoResultWithoutSuccess ==
    /\ \A j \in 1..Len(ends) :
           ends[j].wait # "success" => ends[j].list # "objects"
    /\ (FO_Returned /\ FO_LastNotSuccess) =>
           (result = "no_objects_found" /\ Len(ends) = retries)

\* C7: found_cavities, empty at first, never holds two entries with the same
\* object_name, whatever objects the execute calls select.
C7_UniqueNames ==
    \A a, b \in 1..Len(found_cavities) :
        a # b => found_cavities[a].object_name # found_cavities[b].object_name

\* two accepted cavities of one name have been merged by find_cavities
C7_Witness ==
    /\ step = "find_cavities"
    /\ Len(seen) = 2 /\ Len(found_cavities) = 1
    /\ seen[1].object_name = seen[2].object_name
    /\ Accepted(seen[1].matching_error) /\ Accepted(seen[2].matching_error)

\* the matching errors of the candidates of name n handed to the merge so far
SeenErrs(n) ==
    {seen[j].matching_error : j \in {x \in 1..Len(seen) : seen[x].object_name = n}}

\* the entries of found_cavities of name n
Entries(n) == {idx \in 1..Len(found_cavities) : found_cavities[idx].object_name = n}

\* C8: for every object_name, an entry is present exactly when some candidate
\* of that name handed to the merge was below the threshold, and its
\* matching_error is the minimum over all candidates of that name handed to
\* the merge, in whatever order and batches they came.
C8_BestKept ==
    \A n \in Names :
        /\ Entries(n) # {} <=> \E e \in SeenErrs(n) : e < matching_threshold
        /\ \A idx \in Entries(n) :
               /\ found_cavities[idx].matching_error \in SeenErrs(n)
               /\ \A e \in SeenErrs(n) : found_cavities[idx].matching_error <= e

\* a rejected candidate, then an accepted one, then a better one of one name
C8_Witness ==
    /\ step = "merge"
    /\ seen = <<Candidate("A", 20), Candidate("A", 8), Candidate("A", 3)>>
    /\ found_cavities = <<Candidate("A", 3)>>

\* found_cavities as a mapping object_name -> matching_error
Mapping(fc) == {<<fc[j].object_name, fc[j].matching_error>> : j \in 1..Len(fc)}

\* the orders in which the candidates of a sequence can arrive
Orders(sq) ==
    LET n == Len(sq)
        bij == {f \in [1..n -> 1..n] : \A a, b \in 1..n : a # b => f[a] # f[b]}
    IN  {[j \in 1..n |-> sq[f[j]]] : f \in bij}

\* C9: the mapping held in found_cavities is the one the merge gives for the
\* same candidates in any other order of arrival.
C9_OrderIndependent ==
    \A sq \in Orders(seen) : Mapping(Merge(<<>>, sq)) = Mapping(found_cavities)

\* candidates of two names have been merged, one name with two different
\* accepted scores, the better one last
C9_Witness ==
    /\ step = "merge"
    /\ Len(seen) = 3 /\ Len(found_cavities) = 2
    /\ seen[1].object_name = seen[3].object_name
    /\ seen[3].matching_error < seen[1].matching_error
    /\ Accepted(seen[1].matching_error)

\* the merge of a candidate that is not below the threshold and whose name has
\* no entry leaves found_cavities as it is
C10_Step ==
    (step = "merge" /\ pc = "M179") =>
        LET cand == Head(local_found_cavities)
        IN  (/\ cand.matching_error >= matching_threshold
             /\ Entries(cand.object_name) = {})
            => found_cavities' = found_cavities

\* C10: a candidate whose matching_error is not strictly below the threshold
\* (0.1) and whose object_name has no entry is never added; a score equal to
\* the threshold is rejected too.
C10_RejectedNotAdded == [][C10_Step]_vars

\* a candidate scored exactly at the threshold was merged while its name had
\* no entry, and has none now
C10_Witness ==
    /\ step = "merge"
    /\ Len(seen) > 0
    /\ seen[Len(seen)].matching_error = matching_threshold
    /\ Entries(seen[Len(seen)].object_name) = {}
    /\ found_cavities # <<>>

\* the candidates handed to the merge from position j on: the last batch is
\* one of these
SeenFrom(j) == SubSeq(seen, j, Len(seen))

\* C11: merging a batch that was already merged a second time, or a batch of
\* the candidates held as the best entries, leaves found_cavities as it is:
\* the same entries in the same order with the same scores.
C11_Idempotent ==
    /\ \A j \in 1..Len(seen) :
           Merge(found_cavities, SeenFrom(j)) = found_cavities
    /\ Merge(found_cavities, found_cavities) = found_cavities

\* two batches have been merged, the second bettering an entry of the first
C11_Witness ==
    /\ step = "merge" /\ pc = "idle"
    /\ Len(seen) = 3 /\ Len(found_cavities) = 2
    /\ seen[1].object_name = seen[3].object_name
    /\ found_cavities[1] = seen[3]
    /\ seen[1] # seen[3]

\* the names held in found_cavities, in order
NameOrder(fc) == [j \in 1..Len(fc) |-> fc[j].object_name]

\* the merge of a candidate whose name has an entry: the entry is replaced in
\* its place when the candidate is strictly better, and nothing changes when
\* it is equal or worse
C17_Step ==
    (step = "merge" /\ pc = "M179") =>
        LET cand == Head(local_found_cavities)
        IN  \A idx \in Entries(cand.object_name) :
              /\ NameOrder(found_cavities') = NameOrder(found_cavities)
              /\ IF cand.matching_error < found_cavities[idx].matching_error
                   THEN found_cavities' =
                            [found_cavities EXCEPT ![idx] = cand]
                   ELSE found_cavities' = found_cavities

FC_Returned == step = "find_cavities" /\ pc = "idle" /\ result # "none"

\* C12: a find_cavities call in which no cycle timed out returns 'succeeded'
\* exactly when found_cavities, after the merge, has as many entries as
\* selected_objects, and 'not_all_cavities_found' otherwise.
C12_CountDecides ==
    (FC_Returned /\ result # "timeout") =>
        /\ Len(local_found_cavities) = Len(selected_objects)
        /\ result \in {"succeeded", "not_all_cavities_found"}
        /\ result = "succeeded" <=> Len(found_cavities) = Len(selected_objects)

\* two objects were selected and one entry is held
C12_Witness ==
    /\ FC_Returned /\ result = "not_all_cavities_found"
    /\ Len(selected_objects) = 2 /\ Len(found_cavities) = 1

\* C18: under every interleaving of the callbacks with execute, a
\* find_objects call that returns 'objects_found' has put a non-empty object
\* list in userdata.found_objects, and one that returns 'no_objects_found'
\* has left it None and has made all `retries` attempts.
C18_OutcomeMatchesOutput ==
    FO_Returned =>
        /\ result = "objects_found" => found_objects.objects = "objects"
        /\ result = "no_objects_found" =>
               (found_objects = None /\ nTrig = retries)

\* C19: when find_cavities returns 'succeeded', every selected object has an
\* entry of its name in found_cavities.
C19_AllSelectedFound ==
    (FC_Returned /\ result = "succeeded") =>
        \A j \in 1..Len(selected_objects) : Entries(selected_objects[j]) # {}

\* C20: when find_cavities.execute returns 'timeout', userdata.found_cavities
\* is what it was when the call was entered: the candidates received for the
\* earlier objects of the call are still in the local list only, and the
\* triggers of the call stop at the object whose wait timed out.
C20_TimeoutLeavesCavities ==
    (FC_Returned /\ result = "timeout") =>
        /\ found_cavities = found_before
        /\ k <= Len(selected_objects)
        /\ Len(local_found_cavities) = k - 1
        /\ nTrig = k

\* a call timed out on its second object after it had received, for the
\* first, a candidate that the merge would have taken
C20_Witness ==
    /\ FC_Returned
    /\ result = "timeout"
    /\ k = 2
    /\ Len(local_found_cavities) = 1
    /\ Merge(found_cavities, local_found_cavities) # found_cavities

\* an execute call of do_visual_servoing has returned
VS_Returned == step = "do_visual_servoing" /\ pc = "idle" /\ result # "none"

\* the error codes the if/elif chain of do_visual_servoing names
MappedCodes == {0, -1, -2, -3}

\* the outcomes each state declares at construction
Outcomes(s) ==
    CASE s = "find_objects" -> {"objects_found", "no_objects_found"}
      [] s = "transform_object_poses" ->
            {"succeeded", "no_frame_specified", "tf_error"}
      [] s = "do_visual_servoing" ->
            {"succeeded", "failed", "timeout", "lost_object"}
      [] s = "find_cavities" ->
            {"succeeded", "not_all_cavities_found", "timeout"}

\* C13: do_visual_servoing.execute maps error_code 0 to 'succeeded', -1 to
\* 'failed', -2 to 'timeout' and -3 to 'lost_object'; for any other code the
\* call does not end with a declared outcome nor with a default value (it
\* surfaces a fault instead).
C13_FixedMapping ==
    (VS_Returned /\ response.status = "returned") =>
        /\ response.error_code = 0 => result = "succeeded"
        /\ response.error_code = -1 => result = "failed"
        /\ response.error_code = -2 => result = "timeout"
        /\ response.error_code = -3 => result = "lost_object"
        /\ response.error_code \notin MappedCodes =>
               /\ result \notin Outcomes("do_visual_servoing")
               /\ result # "None"

\* C14: every execute call that has returned, of any of the four states,
\* returned an outcome the state declared at construction.
C14_DeclaredOutcome ==
    (step \in Steps /\ pc = "idle" /\ result # "none") =>
        result \in Outcomes(step)

\* an execute call of transform_object_poses has returned
TP_Returned ==
    step = "transform_object_poses" /\ pc = "idle" /\ result # "none"

\* C15: a transform that raises is not fatal to the call.  In find_cavities
\* the candidates whose transform raised keep their original frame, the
\* others have the target frame, the whole local list is merged and the
\* outcome is the one the merged list gives; in transform_object_poses the
\* call still returns 'succeeded' and every object other than the failing
\* one has the target frame.
C15_TransformNeverFatal ==
    /\ (FC_Returned /\ result # "timeout" /\ tf_failed # {}) =>
           /\ \A idx \in 1..Len(local_found_cavities) :
                 local_found_cavities[idx].frame =
                     IF idx \in tf_failed THEN CameraFrame ELSE frame_id
           /\ found_cavities = Merge(found_before, local_found_cavities)
           /\ result = Classify(found_cavities, selected_objects)
    /\ (TP_Returned /\ tf_failed # {}) =>
           /\ result = "succeeded"
           /\ \A idx \in 1..Len(poses) :
                 idx \notin tf_failed => poses[idx] = frame_id

\* one statement of do_visual_servoing.execute: the except branch returns
\* 'failed' with vscount 0; the if/elif chain sets vscount to 0 for
\* error_code 0 and leaves it alone for every other code; the service call
\* does not write it
C16_Step ==
    /\ pc = "V116" => (result' = "failed" /\ vscount' = 0 /\ pc' = "idle")
    /\ pc = "V119" =>
           vscount' = (IF response.error_code = 0 THEN 0 ELSE vscount)
    /\ (pc = "V119" /\ response.error_code \in {-1, -2, -3}) =>
           vscount' = vscount

\* C16: when the service call raises ServiceException the call returns
\* 'failed' and sets vscount to 0; vscount is set to 0 on that fault and on
\* error_code 0 only, and is unchanged for the error codes -1, -2 and -3.
C16_CountReset == [][C16_Step]_vars

\* a call whose service call raised has returned
C16_Witness ==
    /\ VS_Returned
    /\ response.status = "raised"
    /\ result = "failed"
    /\ vscount = 0

====
